---- MODULE Spec2Model ----
(***************************************************************************)
(* Model of src/src/redshift_mcp_server.py: the permission gate            *)
(* (get_mcp_mode, is_forbidden), the process-wide connection_state and the *)
(* tools connect_db, query, execute, list_schemas, list_tables,            *)
(* describe_table and disconnect, run one at a time against a database     *)
(* driver whose every call may succeed or raise.                           *)
(*                                                                         *)
(* Python values are modelled as follows.  An Optional value is a sequence *)
(* of length 0 (None) or 1 (the value).  Text that the code trims, splits  *)
(* or changes the case of (SQL, DB_MCP_MODE, REDSHIFT_PORT) is a sequence  *)
(* of one-character strings; other text is a TLA+ string.  A dict is a     *)
(* record, and a key the dict lacks is a field the record lacks.           *)
(***************************************************************************)
EXTENDS Integers, Sequences, FiniteSets, TLC

(***************************************************************************)
(* Python values                                                           *)
(***************************************************************************)
None == << >>

Some(v) == << v >>

\* bool(x) of an Optional[str]: None and "" are falsy.
TruthyStr(o) == o # None /\ o[1] # ""

\* bool(x) of an Optional[int]: None and 0 are falsy.
TruthyInt(o) == o # None /\ o[1] # 0

\* bool(x) of an Optional text (a character sequence): None and the empty
\* text are falsy.
TruthyText(o) == o # None /\ o[1] # << >>

\* Python's `a or b` on Optional[str] and on Optional[int].
OrStr(a, b) == IF TruthyStr(a) THEN a ELSE b

OrInt(a, b) == IF TruthyInt(a) THEN a ELSE b

(***************************************************************************)
(* str.strip, str.split, str.lower, str.upper on character sequences       *)
(***************************************************************************)
Whitespace == {" ", "\t", "\n", "\r", "\f"}

LowerLetters ==
  << "a", "b", "c", "d", "e", "f", "g", "h", "i", "j", "k", "l", "m",
     "n", "o", "p", "q", "r", "s", "t", "u", "v", "w", "x", "y", "z" >>

UpperLetters ==
  << "A", "B", "C", "D", "E", "F", "G", "H", "I", "J", "K", "L", "M",
     "N", "O", "P", "Q", "R", "S", "T", "U", "V", "W", "X", "Y", "Z" >>

LowerChar(c) ==
  IF \E i \in DOMAIN UpperLetters : UpperLetters[i] = c
  THEN LowerLetters[CHOOSE i \in DOMAIN UpperLetters : UpperLetters[i] = c]
  ELSE c

UpperChar(c) ==
  IF \E i \in DOMAIN LowerLetters : LowerLetters[i] = c
  THEN UpperLetters[CHOOSE i \in DOMAIN LowerLetters : LowerLetters[i] = c]
  ELSE c

Lower(s) == [i \in 1..Len(s) |-> LowerChar(s[i])]

Upper(s) == [i \in 1..Len(s) |-> UpperChar(s[i])]

\* s.strip(): drop the leading and the trailing run of whitespace.
Strip(s) ==
  LET keep == {i \in 1..Len(s) : s[i] \notin Whitespace}
  IN  IF keep = {} THEN << >>
      ELSE LET lo == CHOOSE i \in keep : \A j \in keep : i <= j
               hi == CHOOSE i \in keep : \A j \in keep : j <= i
           IN  SubSeq(s, lo, hi)

\* s.split()[0] for a non-empty s that starts with a non-whitespace
\* character: the characters up to the first whitespace.
FirstToken(s) ==
  LET ws == {i \in 1..Len(s) : s[i] \in Whitespace}
  IN  IF ws = {} THEN s
      ELSE SubSeq(s, 1, (CHOOSE i \in ws : \A j \in ws : i <= j) - 1)

(***************************************************************************)
(* Mode enforcement                                                        *)
(***************************************************************************)
MODE_READONLY == << "r", "e", "a", "d", "o", "n", "l", "y" >>

MODE_READWRITE == << "r", "e", "a", "d", "w", "r", "i", "t", "e" >>

MODE_ADMIN == << "a", "d", "m", "i", "n" >>

KW_insert == << "i", "n", "s", "e", "r", "t" >>
KW_update == << "u", "p", "d", "a", "t", "e" >>
KW_delete == << "d", "e", "l", "e", "t", "e" >>
KW_drop == << "d", "r", "o", "p" >>
KW_truncate == << "t", "r", "u", "n", "c", "a", "t", "e" >>
KW_alter == << "a", "l", "t", "e", "r" >>
KW_create == << "c", "r", "e", "a", "t", "e" >>
KW_grant == << "g", "r", "a", "n", "t" >>
KW_revoke == << "r", "e", "v", "o", "k", "e" >>
KW_comment == << "c", "o", "m", "m", "e", "n", "t" >>
KW_set == << "s", "e", "t" >>
KW_copy == << "c", "o", "p", "y" >>
KW_unload == << "u", "n", "l", "o", "a", "d" >>
KW_vacuum == << "v", "a", "c", "u", "u", "m" >>
KW_analyze == << "a", "n", "a", "l", "y", "z", "e" >>
KW_merge == << "m", "e", "r", "g", "e" >>

FORBIDDEN_READONLY ==
  << KW_insert, KW_update, KW_delete, KW_drop, KW_truncate, KW_alter,
     KW_create, KW_grant, KW_revoke, KW_comment, KW_set, KW_copy,
     KW_unload, KW_vacuum, KW_analyze, KW_merge >>

\* A readwrite list that is the readonly one: insert, update and create
\* are denied as well.
FORBIDDEN_READWRITE_as_readonly == FORBIDDEN_READONLY

FORBIDDEN_READWRITE ==
  << KW_delete, KW_drop, KW_truncate, KW_alter, KW_grant, KW_revoke,
     KW_comment, KW_set, KW_copy, KW_unload, KW_vacuum, KW_analyze,
     KW_merge >>

\* Python's `x in list`.
InList(x, list) == \E i \in DOMAIN list : list[i] = x

\* The mode as configured, whatever it is.
ValidMode_unchecked(mode) == mode

\* readonly for a mode that is not one of the three.
ValidMode(mode) ==
  IF mode \notin {MODE_READONLY, MODE_READWRITE, MODE_ADMIN}
  THEN MODE_READONLY
  ELSE mode

\* os.getenv('DB_MCP_MODE', 'readonly').lower(), and readonly for any value
\* that is not one of the three modes.  e is the process environment.
get_mcp_mode(e) ==
  ValidMode(Lower(IF e.DB_MCP_MODE = None THEN MODE_READONLY
                  ELSE e.DB_MCP_MODE[1]))

\* The text of the reason is "'<TOKEN>' statements are not allowed in
\* <mode> mode."; the record keeps its two variable parts.
ForbiddenReason(first_word, mode) ==
  [ text |-> "'{token}' statements are not allowed in {mode} mode.",
    token |-> Upper(first_word),
    mode |-> mode ]

\* first_word = sql_trim.split()[0] if sql_trim else ''
FirstWord(sql_trim) ==
  IF sql_trim # << >> THEN FirstToken(sql_trim) ELSE << >>

\* The gate with no mode that allows everything: any mode other than
\* readonly is held to the readwrite list.
Verdict_admin_as_readwrite(first_word, mode) ==
  IF mode = MODE_READONLY
  THEN IF InList(first_word, FORBIDDEN_READONLY)
       THEN Some(ForbiddenReason(first_word, MODE_READONLY))
       ELSE None
  ELSE IF InList(first_word, FORBIDDEN_READWRITE)
  THEN Some(ForbiddenReason(first_word, mode))
  ELSE None

\* The two branches on the mode, for the first word of the statement.
Verdict(first_word, mode) ==
  IF mode = MODE_READONLY
  THEN IF InList(first_word, FORBIDDEN_READONLY)
       THEN Some(ForbiddenReason(first_word, MODE_READONLY))
       ELSE None
  ELSE IF mode = MODE_READWRITE
  THEN IF InList(first_word, FORBIDDEN_READWRITE)
       THEN Some(ForbiddenReason(first_word, MODE_READWRITE))
       ELSE None
  ELSE None

\* The reason (Some) if the statement is forbidden in the mode, else None.
is_forbidden(sql, mode) ==
  Verdict(FirstWord(Lower(Strip(sql))), mode)

(***************************************************************************)
(* Process environment and connection parameters                           *)
(***************************************************************************)
DEFAULT_PORT == 5439

Digits == << "0", "1", "2", "3", "4", "5", "6", "7", "8", "9" >>

IsDigit(c) == \E i \in DOMAIN Digits : Digits[i] = c

DigitValue(c) == (CHOOSE i \in DOMAIN Digits : Digits[i] = c) - 1

\* The number a sequence of digits denotes.
DecimalValue(t) ==
  LET value[i \in 0..Len(t)] ==
        IF i = 0 THEN 0 ELSE 10 * value[i - 1] + DigitValue(t[i])
  IN  value[Len(t)]

\* Some(n) for a non-empty sequence of digits, else None.
ParseDigits(t) ==
  IF t # << >> /\ \A i \in 1..Len(t) : IsDigit(t[i])
  THEN Some(DecimalValue(t))
  ELSE None

\* int(text): Some(n) for a decimal numeral (surrounding whitespace
\* allowed), None where Python raises ValueError.  Signs and underscores
\* are not among the inputs.
ParseInt(text) == ParseDigits(Strip(text))

ValueError == [type |-> "ValueError", text |-> "invalid literal for int()"]

\* The dict for an environment whose REDSHIFT_PORT, if set, int() reads as
\* port (None: int() raises).
EnvDict(e, port) ==
  IF TruthyText(e.REDSHIFT_PORT) /\ port = None
  THEN [raised |-> TRUE, exc |-> ValueError]
  ELSE [raised |-> FALSE,
        params |->
          [host |-> IF TruthyStr(e.REDSHIFT_HOST) THEN e.REDSHIFT_HOST
                    ELSE None,
           database |-> IF TruthyStr(e.REDSHIFT_DATABASE)
                        THEN e.REDSHIFT_DATABASE ELSE None,
           user |-> IF TruthyStr(e.REDSHIFT_USER) THEN e.REDSHIFT_USER
                    ELSE None,
           password |-> IF TruthyStr(e.REDSHIFT_PASSWORD)
                        THEN e.REDSHIFT_PASSWORD ELSE None,
           port |-> port]]

\* The dict of the parameters the environment sets (a key is present iff
\* its variable is set and non-empty; an absent key is None here), or the
\* ValueError int() raises on REDSHIFT_PORT.
get_env_connection_params(e) ==
  EnvDict(e, IF TruthyText(e.REDSHIFT_PORT) THEN ParseInt(e.REDSHIFT_PORT[1])
             ELSE None)

\* Module import: DB_MCP_MODE is set to 'readonly' when it is not defined.
ImportEnv(e) ==
  IF e.DB_MCP_MODE = None
  THEN [e EXCEPT !.DB_MCP_MODE = Some(MODE_READONLY)]
  ELSE e

(***************************************************************************)
(* Connection state and the driver                                         *)
(***************************************************************************)
\* ConnectionState(): every field None.
ConnectionState ==
  [conn |-> None, cursor |-> None, host |-> None, database |-> None,
   user |-> None]

\* A driver exception; str(e) is its text.
DriverError(call) == [type |-> "DriverError", text |-> call]

AttributeError(attr) ==
  [type |-> "AttributeError", text |-> "'NoneType' object has no attribute",
   attr |-> attr]

\* The result dict of an `except Exception as e` branch.
ErrorResult(exc) == [status |-> "error", error |-> exc]

\* One driver call in the log of an operation: its name, the connection
\* handle it acts on (None for connect) and whether it returned.
Call(name, handle, ok) == [call |-> name, on |-> handle, ok |-> ok]

\* redshift_connector.connect(...): a new open connection, handle
\* dr.opened + 1, or an exception.
DriverConnect(dr, ok) ==
  IF ok
  THEN [dr EXCEPT !.opened = @ + 1, !.live = @ \cup {dr.opened + 1}]
  ELSE dr

\* conn.close(): the connection is closed if the call returns.
DriverClose(dr, h, ok) ==
  IF ok THEN [dr EXCEPT !.live = @ \ {h}] ELSE dr

\* A call on a connection or on its cursor returns only if the oracle lets
\* it and the connection is open.
Returns(dr, h, ok) == ok /\ h \in dr.live

(***************************************************************************)
(* Operations.  Each takes the connection state s, the driver state dr,    *)
(* the environment e, its arguments and the outcomes o of the driver calls *)
(* it may make, and yields the connection state and driver state it        *)
(* leaves, the driver calls it made, and what it returned or raised.       *)
(***************************************************************************)
Return(s, dr, calls, result) ==
  [state |-> s, driver |-> dr, calls |-> calls,
   out |-> [raised |-> FALSE, result |-> result]]

Raise(s, dr, calls, exc) ==
  [state |-> s, driver |-> dr, calls |-> calls,
   out |-> [raised |-> TRUE, exc |-> exc]]

\* The entries of the "Missing required parameters" message, in order.
MissingParameters(host, database, user, password) ==
  (IF ~TruthyStr(host) THEN << "host (or REDSHIFT_HOST env var)" >>
   ELSE << >>)
  \o (IF ~TruthyStr(database)
      THEN << "database (or REDSHIFT_DATABASE env var)" >> ELSE << >>)
  \o (IF ~TruthyStr(user) THEN << "user (or REDSHIFT_USER env var)" >>
      ELSE << >>)
  \o (IF ~TruthyStr(password)
      THEN << "password (or REDSHIFT_PASSWORD env var)" >> ELSE << >>)

\* A try block that opens the new connection without closing the one the
\* Session holds.
ConnectTry_no_close(s, dr, host, database, user, password, port, o) ==
  LET connectCall ==
        [call |-> "connect", on |-> None, ok |-> o.connect, host |-> host,
         database |-> database, user |-> user, password |-> password,
         port |-> port]
      dr2 == DriverConnect(dr, o.connect)
      new == Some(dr2.opened)
      cursorCall == Call("cursor", new, o.cursor)
  IN  IF ~o.connect
      THEN Return(s, dr2, << connectCall >>,
                  ErrorResult(DriverError("connect")))
      ELSE IF ~o.cursor
      THEN Return([s EXCEPT !.conn = new], dr2,
                  << connectCall, cursorCall >>,
                  ErrorResult(DriverError("cursor")))
      ELSE Return([conn |-> new, cursor |-> new, host |-> host,
                   database |-> database, user |-> user],
                  dr2, << connectCall, cursorCall >>,
                  [status |-> "connected", host |-> host,
                   database |-> database, user |-> user])

\* The try block of connect_db, with the parameters resolved.
ConnectTry(s, dr, host, database, user, password, port, o) ==
  LET closing == s.conn # None
      closeCalls == IF closing THEN << Call("close", s.conn, o.close) >>
                    ELSE << >>
      dr1 == IF closing THEN DriverClose(dr, s.conn[1], o.close) ELSE dr
      connectCall ==
        [call |-> "connect", on |-> None, ok |-> o.connect, host |-> host,
         database |-> database, user |-> user, password |-> password,
         port |-> port]
      dr2 == DriverConnect(dr1, o.connect)
      new == Some(dr2.opened)
      s2 == [s EXCEPT !.conn = new]
      cursorCall == Call("cursor", new, o.cursor)
  IN  IF closing /\ ~o.close
      THEN Return(s, dr1, closeCalls, ErrorResult(DriverError("close")))
      ELSE IF ~o.connect
      THEN Return(s, dr2, closeCalls \o << connectCall >>,
                  ErrorResult(DriverError("connect")))
      ELSE IF ~o.cursor
      THEN Return(s2, dr2, closeCalls \o << connectCall, cursorCall >>,
                  ErrorResult(DriverError("cursor")))
      ELSE Return([conn |-> new, cursor |-> new, host |-> host,
                   database |-> database, user |-> user],
                  dr2, closeCalls \o << connectCall, cursorCall >>,
                  [status |-> "connected", host |-> host,
                   database |-> database, user |-> user])

\* connect_db once the parameters are resolved: validation, then the try
\* block.
ConnectResolved(s, dr, host, database, user, password, port, o) ==
  IF ~(TruthyStr(host) /\ TruthyStr(database) /\ TruthyStr(user)
       /\ TruthyStr(password))
  THEN Return(s, dr, << >>,
              [status |-> "error",
               error |-> [text |-> "Missing required parameters: ",
                          missing |-> MissingParameters(host, database,
                                                        user, password)]])
  ELSE ConnectTry(s, dr, host, database, user, password, port, o)

\* connect_db with the operands of each `or` exchanged: the environment's
\* value where it has one, else the argument.
ConnectWithEnv_env_first(s, dr, env_params, a, o) ==
  IF env_params.raised THEN Raise(s, dr, << >>, env_params.exc)
  ELSE ConnectResolved(
         s, dr,
         OrStr(env_params.params.host, a.host),
         OrStr(env_params.params.database, a.database),
         OrStr(env_params.params.user, a.user),
         OrStr(env_params.params.password, a.password),
         OrInt(env_params.params.port,
               IF a.port # None THEN a.port ELSE Some(DEFAULT_PORT)),
         o)

\* connect_db once env_params is read: each parameter is the argument or
\* else the environment's value, the port 5439 if neither has it.
ConnectWithEnv(s, dr, env_params, a, o) ==
  IF env_params.raised THEN Raise(s, dr, << >>, env_params.exc)
  ELSE ConnectResolved(
         s, dr,
         OrStr(a.host, env_params.params.host),
         OrStr(a.database, env_params.params.database),
         OrStr(a.user, env_params.params.user),
         OrStr(a.password, env_params.params.password),
         OrInt(a.port, IF env_params.params.port # None
                       THEN env_params.params.port ELSE Some(DEFAULT_PORT)),
         o)

\* connect_db(host, database, user, password, port); a is the record of
\* the five arguments, None for one that is not given.
connect_db(s, dr, e, a, o) ==
  ConnectWithEnv(s, dr, get_env_connection_params(e), a, o)

\* `all(key in env_params for key in required)`
HasRequired(params) ==
  /\ params.host # None /\ params.database # None
  /\ params.user # None /\ params.password # None

\* The value of auto_connect after what the call it made did.
Logged(r) == [r EXCEPT !.out = [raised |-> FALSE, result |-> None]]

\* auto_connect once env_params is read.
AutoConnectWithEnv(s, dr, e, env_params, o) ==
  IF env_params.raised THEN Raise(s, dr, << >>, env_params.exc)
  ELSE IF HasRequired(env_params.params)
  THEN Logged(connect_db(s, dr, e, env_params.params, o))
  ELSE Return(s, dr, << >>, None)

\* auto_connect(): connect_db(**env_params) when the environment has the
\* four required parameters; the result of connect_db is only logged.
auto_connect(s, dr, e, o) ==
  AutoConnectWithEnv(s, dr, e, get_env_connection_params(e), o)

NotConnected ==
  [error |-> [text |-> "Not connected to database. Use connect_db or set environment variables."]]

\* `if not connection_state.conn: await auto_connect()`, the first step of
\* every operation that needs a session.
EnsureConnected(s, dr, e, o) ==
  IF s.conn = None THEN auto_connect(s, dr, e, o)
  ELSE Return(s, dr, << >>, None)

\* cursor.execute(sql, params) or cursor.execute(sql): the entry of the call
\* log.  The cursor is named by the handle of its connection.
ExecuteCall(cursor, sql, params, ok) ==
  [call |-> "execute", on |-> cursor, ok |-> ok, sql |-> sql,
   params |-> IF params # None /\ params[1] # << >> THEN params ELSE None]

Min(a, b) == IF a <= b THEN a ELSE b

\* dict(zip(columns, row)): pairs up to the shorter length, a later pair
\* replacing an earlier one with the same column name.
ZipDict(columns, row) ==
  LET n == Min(Len(columns), Len(row))
  IN  [c \in {columns[i] : i \in 1..n} |->
         row[CHOOSE i \in 1..n :
               columns[i] = c /\ \A j \in 1..n : columns[j] = c => j <= i]]

\* The result of query's try block once the rows are fetched; fr is what
\* the cursor holds: its description (None or the column descriptors) and
\* the rows of fetchall().
QueryResult(fr) ==
  LET columns == IF fr.description # None /\ fr.description[1] # << >>
                 THEN [i \in 1..Len(fr.description[1]) |->
                         fr.description[1][i][1]]
                 ELSE << >>
      results == [i \in 1..Len(fr.rows) |-> ZipDict(columns, fr.rows[i])]
  IN  [status |-> "success", row_count |-> Len(results),
       columns |-> columns, data |-> results]

\* A read path that rolls the connection back when the driver raises, as
\* the except branch of execute does.
ReadTry_rolls_back(s, dr, calls, sql, params, o, built) ==
  LET cursor == s.cursor
      execOk == Returns(dr, cursor[1], o.execute)
      fetchOk == Returns(dr, cursor[1], o.fetch)
      execCall == ExecuteCall(cursor, sql, params, execOk)
      fetchCall == Call("fetchall", cursor, fetchOk)
      rollbackCall == Call("rollback", s.conn, TRUE)
  IN  IF cursor = None
      THEN Return(s, dr, calls, ErrorResult(AttributeError("execute")))
      ELSE IF ~execOk
      THEN Return(s, dr, calls \o << execCall, rollbackCall >>,
                  ErrorResult(DriverError("execute")))
      ELSE IF ~fetchOk
      THEN Return(s, dr, calls \o << execCall, fetchCall, rollbackCall >>,
                  ErrorResult(DriverError("fetchall")))
      ELSE Return(s, dr, calls \o << execCall, fetchCall >>, built)

\* The try block shared by query and the three introspection tools:
\* execute on the cursor, then fetchall, then the result built from the
\* rows; any exception becomes an error result.
ReadTry(s, dr, calls, sql, params, o, built) ==
  LET cursor == s.cursor
      execOk == Returns(dr, cursor[1], o.execute)
      fetchOk == Returns(dr, cursor[1], o.fetch)
      execCall == ExecuteCall(cursor, sql, params, execOk)
      fetchCall == Call("fetchall", cursor, fetchOk)
  IN  IF cursor = None
      THEN Return(s, dr, calls, ErrorResult(AttributeError("execute")))
      ELSE IF ~execOk
      THEN Return(s, dr, calls \o << execCall >>,
                  ErrorResult(DriverError("execute")))
      ELSE IF ~fetchOk
      THEN Return(s, dr, calls \o << execCall, fetchCall >>,
                  ErrorResult(DriverError("fetchall")))
      ELSE Return(s, dr, calls \o << execCall, fetchCall >>, built)

\* What follows `if not connection_state.conn: await auto_connect()` in
\* query and in the introspection tools; ac is what auto_connect did.
SessionRead(ac, sql, params, o, built) ==
  IF ac.out.raised THEN ac
  ELSE IF ac.state.conn = None
  THEN Return(ac.state, ac.driver, ac.calls, NotConnected)
  ELSE ReadTry(ac.state, ac.driver, ac.calls, sql, params, o, built)

\* query(sql, params)
query(s, dr, e, sql, params, o) ==
  IF is_forbidden(sql, get_mcp_mode(e)) # None
  THEN Return(s, dr, << >>,
              [status |-> "error",
               error |-> is_forbidden(sql, get_mcp_mode(e))[1]])
  ELSE SessionRead(EnsureConnected(s, dr, e, o), sql, params, o,
                   QueryResult(o.fetched))

\* The try block of execute: execute on the cursor, commit on the
\* connection; on any exception roll the connection back (the rollback's
\* own exception is not caught) and return the first exception's message.
ExecuteTry(s, dr, calls, sql, params, o) ==
  LET cursor == s.cursor
      execOk == Returns(dr, cursor[1], o.execute)
      commitOk == Returns(dr, s.conn[1], o.commit)
      rollbackOk == Returns(dr, s.conn[1], o.rollback)
      execCall == ExecuteCall(cursor, sql, params, execOk)
      tried == IF cursor = None THEN << >>
               ELSE IF ~execOk THEN << execCall >>
               ELSE << execCall, Call("commit", s.conn, commitOk) >>
      exc == IF cursor = None THEN AttributeError("execute")
             ELSE IF ~execOk THEN DriverError("execute")
             ELSE DriverError("commit")
      failed == cursor = None \/ ~execOk \/ ~commitOk
      rollbackCall == Call("rollback", s.conn, rollbackOk)
  IN  IF ~failed
      THEN Return(s, dr, calls \o tried,
                  [status |-> "success",
                   rows_affected |-> IF o.rowcount # None THEN o.rowcount[1]
                                     ELSE -1])
      ELSE IF s.conn = None
      THEN Return(s, dr, calls \o tried, ErrorResult(exc))
      ELSE IF rollbackOk
      THEN Return(s, dr, calls \o tried \o << rollbackCall >>,
                  ErrorResult(exc))
      ELSE Raise(s, dr, calls \o tried \o << rollbackCall >>,
                 DriverError("rollback"))

\* What follows the auto-connect in execute.
SessionWrite(ac, sql, params, o) ==
  IF ac.out.raised THEN ac
  ELSE IF ac.state.conn = None
  THEN Return(ac.state, ac.driver, ac.calls, NotConnected)
  ELSE ExecuteTry(ac.state, ac.driver, ac.calls, sql, params, o)

GateAfterConnect(ac, e, sql, params, o) ==
  IF ac.out.raised THEN ac
  ELSE IF ac.state.conn = None
  THEN Return(ac.state, ac.driver, ac.calls, NotConnected)
  ELSE IF is_forbidden(sql, get_mcp_mode(e)) # None
  THEN Return(ac.state, ac.driver, ac.calls,
              [status |-> "error",
               error |-> is_forbidden(sql, get_mcp_mode(e))[1]])
  ELSE ExecuteTry(ac.state, ac.driver, ac.calls, sql, params, o)

\* execute with the session ensured before the gate is consulted.
execute_connect_first(s, dr, e, sql, params, o) ==
  GateAfterConnect(EnsureConnected(s, dr, e, o), e, sql, params, o)

\* execute(sql, params)
execute(s, dr, e, sql, params, o) ==
  IF is_forbidden(sql, get_mcp_mode(e)) # None
  THEN Return(s, dr, << >>,
              [status |-> "error",
               error |-> is_forbidden(sql, get_mcp_mode(e))[1]])
  ELSE SessionWrite(EnsureConnected(s, dr, e, o), sql, params, o)

\* disconnect without the `if connection_state.conn` test: close is called
\* on None when there is no connection.
disconnect_unguarded(s, dr, o) ==
  IF s.conn = None
  THEN Return(s, dr, << >>, ErrorResult(AttributeError("close")))
  ELSE IF ~o.close
  THEN Return(s, dr, << Call("close", s.conn, FALSE) >>,
              ErrorResult(DriverError("close")))
  ELSE Return(ConnectionState, DriverClose(dr, s.conn[1], TRUE),
              << Call("close", s.conn, TRUE) >>,
              [status |-> "disconnected"])

\* disconnect that clears the fields whether or not close raised.
disconnect_always_clears(s, dr, o) ==
  IF s.conn = None
  THEN Return(s, dr, << >>, [status |-> "disconnected"])
  ELSE IF ~o.close
  THEN Return(ConnectionState, dr, << Call("close", s.conn, FALSE) >>,
              ErrorResult(DriverError("close")))
  ELSE Return(ConnectionState, DriverClose(dr, s.conn[1], TRUE),
              << Call("close", s.conn, TRUE) >>,
              [status |-> "disconnected"])

\* disconnect()
disconnect(s, dr, o) ==
  IF s.conn = None
  THEN Return(s, dr, << >>, [status |-> "disconnected"])
  ELSE IF ~o.close
  THEN Return(s, dr, << Call("close", s.conn, FALSE) >>,
              ErrorResult(DriverError("close")))
  ELSE Return(ConnectionState, DriverClose(dr, s.conn[1], TRUE),
              << Call("close", s.conn, TRUE) >>,
              [status |-> "disconnected"])

(***************************************************************************)
(* Schema introspection                                                    *)
(***************************************************************************)
\* The catalog statements, up to the end of their first line (nothing reads
\* more of them than their leading keyword).
LIST_SCHEMAS_SQL ==
  << "\n", " ", " ", " ", " ", " ", " ", " ", " ", " ", " ", " ", " ", "S",
     "E", "L", "E", "C", "T", " ", "s", "c", "h", "e", "m", "a", "_", "n",
     "a", "m", "e", " " >>

LIST_TABLES_SQL ==
  << "\n", " ", " ", " ", " ", " ", " ", " ", " ", " ", " ", " ", " ", "S",
     "E", "L", "E", "C", "T", " ", "t", "a", "b", "l", "e", "_", "n", "a",
     "m", "e", " " >>

DESCRIBE_TABLE_SQL ==
  << "\n", " ", " ", " ", " ", " ", " ", " ", " ", " ", " ", " ", " ", "S",
     "E", "L", "E", "C", "T", " " >>

\* [row[0] for row in cursor.fetchall()]
FirstColumn(rows) == [i \in 1..Len(rows) |-> rows[i][1]]

\* list_schemas that does not try to connect when there is no connection.
list_schemas_no_auto_connect(s, dr, e, o) ==
  IF s.conn = None THEN Return(s, dr, << >>, NotConnected)
  ELSE ReadTry(s, dr, << >>, LIST_SCHEMAS_SQL, None, o,
               [status |-> "success",
                schemas |-> FirstColumn(o.fetched.rows)])

\* list_schemas()
list_schemas(s, dr, e, o) ==
  SessionRead(EnsureConnected(s, dr, e, o), LIST_SCHEMAS_SQL, None, o,
              [status |-> "success", schemas |-> FirstColumn(o.fetched.rows)])

\* list_tables(schema)
list_tables(s, dr, e, schema, o) ==
  SessionRead(EnsureConnected(s, dr, e, o), LIST_TABLES_SQL,
              Some(<< schema >>), o,
              [status |-> "success", schema |-> schema,
               tables |-> FirstColumn(o.fetched.rows)])

\* The col_info dict of one row of information_schema.columns: row is
\* (column_name, data_type, character_maximum_length, numeric_precision,
\* numeric_scale, is_nullable, column_default), the three numbers Optional.
ColumnInfo(row) ==
  [name |-> row[1], type |-> row[2], nullable |-> (row[6] = "YES"),
   default |-> row[7]]
  @@ (IF TruthyInt(row[3]) THEN "length" :> row[3][1]
      ELSE IF TruthyInt(row[4])
      THEN IF TruthyInt(row[5])
           THEN "precision" :> row[4][1] @@ "scale" :> row[5][1]
           ELSE "precision" :> row[4][1]
      ELSE << >>)

\* describe_table(table, schema)
describe_table(s, dr, e, table, schema, o) ==
  SessionRead(EnsureConnected(s, dr, e, o), DESCRIBE_TABLE_SQL,
              Some(<< schema, table >>), o,
              [status |-> "success", schema |-> schema, table |-> table,
               columns |-> [i \in 1..Len(o.fetched.rows) |->
                              ColumnInfo(o.fetched.rows[i])]])

(***************************************************************************)
(* Inputs                                                                  *)
(***************************************************************************)
\* Connections the driver opens in one run.
MaxConns == 2

AllKeywords ==
  {FORBIDDEN_READONLY[i] : i \in DOMAIN FORBIDDEN_READONLY}

SELECT_1 == << "S", "E", "L", "E", "C", "T", " ", "1" >>

\* Statements: every keyword of the deny-lists, upper-cased and followed by
\* an operand, and statements that differ in case, in surrounding
\* whitespace, in having no keyword or in hiding it.
Statements ==
  {Upper(k) \o << " ", "t" >> : k \in AllKeywords}
  \cup { SELECT_1,
         << " ", "\n", "I", "n", "s", "e", "r", "t", "\t", "t", " " >>,
         << "s", "e", "t" >>,
         << "d", "r", "o", "p", "s", " ", "t" >>,
         << "(", "d", "e", "l", "e", "t", "e", " ", "t", ")" >>,
         << >>,
         << " ", "\t" >> }

\* Arguments of query and execute: every statement without params, and one
\* statement with an empty and with a one-element params list.
StatementArgs ==
  [sql : Statements, params : {None}]
  \cup [sql : {SELECT_1}, params : {Some(<< >>), Some(<< 1 >>)}]

\* Arguments of connect_db: each of host, database, user, password given
\* or not, with and without a port; and, with the other four given, an
\* empty host and a port 0.
ConnectArgs ==
  [host : {None, Some("arg-host")},
   database : {None, Some("arg-db")},
   user : {None, Some("arg-user")},
   password : {None, Some("arg-pw")},
   port : {None, Some(5432)}]
  \cup [host : {Some(""), Some("arg-host")},
        database : {Some("arg-db")},
        user : {Some("arg-user")},
        password : {Some("arg-pw")},
        port : {Some(0)}]

EnvAll ==
  [REDSHIFT_HOST |-> Some("env-host"), REDSHIFT_DATABASE |-> Some("env-db"),
   REDSHIFT_USER |-> Some("env-user"), REDSHIFT_PASSWORD |-> Some("env-pw")]

EnvNone == [v \in DOMAIN EnvAll |-> None]

\* The connection parameters of the environment: all, none, all but one,
\* and a host that is set but empty.
EnvParams ==
  {EnvAll, EnvNone, [EnvAll EXCEPT !.REDSHIFT_HOST = Some("")]}
  \cup {[EnvAll EXCEPT ![v] = None] : v \in DOMAIN EnvAll}

\* REDSHIFT_PORT: unset, a numeral, not a numeral.
EnvPorts == {None, Some(<< "5", "4", "4", "0" >>), Some(<< "a", "b", "c" >>)}

\* DB_MCP_MODE: unset, a mode in mixed case, admin, not a mode.
EnvModes ==
  {None, Some(<< "R", "e", "a", "d", "W", "r", "i", "t", "e" >>),
   Some(MODE_ADMIN), Some(<< "r", "o", "o", "t" >>)}

\* Environments of the process before the module is imported: every
\* parameter set with every port under the default mode, and every mode
\* with every port for the complete and for the empty parameter set.
Environments ==
  {p @@ [REDSHIFT_PORT |-> port, DB_MCP_MODE |-> mode] :
     p \in EnvParams, port \in EnvPorts, mode \in {None}}
  \cup {p @@ [REDSHIFT_PORT |-> port, DB_MCP_MODE |-> mode] :
          p \in {EnvAll, EnvNone}, port \in EnvPorts, mode \in EnvModes}

\* What a cursor holds after a statement ran: description and rows.
QueryFetched ==
  { [description |-> None, rows |-> << >>],
    [description |-> Some(<< << "id", "int4" >> >>), rows |-> << << 1 >> >>] }

SchemaFetched ==
  { [description |-> Some(<< << "schema_name", "name" >> >>),
     rows |-> << << "public" >>, << "sales" >> >>] }

TableFetched ==
  { [description |-> Some(<< << "table_name", "name" >> >>),
     rows |-> << << "t" >> >>] }

ColumnFetched ==
  { [description |-> None,
     rows |-> << << "id", "integer", None, Some(32), Some(0), "NO", None >>,
                 << "name", "varchar", Some(100), None, None, "YES",
                    Some("''") >> >>] }

SchemaNames == {"public"}

TableNames == {"t"}

\* cursor.rowcount, None for a cursor without the attribute.
RowCounts == {None, Some(1)}

(***************************************************************************)
(* State machine.  The transport invokes one operation at a time and       *)
(* takes its result before it invokes the next.                            *)
(***************************************************************************)
VARIABLES
  env,               \* os.environ after the module is imported
  connection_state,  \* the global ConnectionState
  driver,            \* opened: connections opened so far; live: those open
  last,              \* the operation that has just ended: name, arguments,
                     \* driver calls, and the result or the exception;
                     \* NoCall once the transport has taken it
  callers            \* where each concurrent caller is in its operation;
                     \* NoCallers when operations run one at a time

vars == << env, connection_state, driver, last, callers >>

NoCall == [op |-> "none"]

NoCallers == << >>

Init ==
  /\ \E e \in Environments : env = ImportEnv(e)
  /\ connection_state = ConnectionState
  /\ driver = [opened |-> 0, live |-> {}]
  /\ last = NoCall
  /\ callers = NoCallers

\* The transport is ready to invoke an operation.
Ready == last = NoCall

\* The operation named op, with arguments args, ran as r.
Effect(op, args, r) ==
  /\ r.driver.opened <= MaxConns
  /\ connection_state' = r.state
  /\ driver' = r.driver
  /\ last' = [op |-> op, args |-> args, calls |-> r.calls, out |-> r.out]
  /\ UNCHANGED << env, callers >>

\* The outcomes to choose for a driver call: either one when the call can
\* be reached, and a fixed one when it cannot.
Outcome(reached) == IF reached THEN BOOLEAN ELSE {TRUE}

Fetched(reached, results) ==
  IF reached THEN results ELSE {CHOOSE fr \in results : TRUE}

CanAutoConnect(env_params) ==
  /\ connection_state.conn = None
  /\ ~env_params.raised
  /\ HasRequired(env_params.params)

\* auto_connect would call the driver: no connection, and the environment
\* has the four parameters and a port that int() reads.
AutoConnects == CanAutoConnect(get_env_connection_params(env))

\* The outcomes of the driver calls of an operation that needs a session:
\* of those of auto_connect and, if a connection results, of the reading
\* calls (with their result among results) or the writing ones.
SessionOutcomes(allowed, auto, results, writes) ==
  UNION { UNION { UNION {
    [close : {TRUE}, connect : {connect}, cursor : {cursor},
     execute : {exec},
     fetch : Outcome(~writes /\ exec),
     fetched : Fetched(~writes /\ exec, results),
     commit : Outcome(writes /\ exec),
     rollback : Outcome(writes),
     rowcount : IF writes /\ exec THEN RowCounts ELSE {None}] :
      exec \in Outcome(allowed /\ connect) } :
      cursor \in Outcome(allowed /\ auto /\ connect) } :
      connect \in Outcome(allowed /\ auto) }

\* The outcomes of the driver calls of connect_db: of close if there is a
\* connection, of connect if close returned, of cursor if connect did.
ConnectOutcomes ==
  UNION { UNION {
    [close : {close}, connect : {connect}, cursor : Outcome(connect)] :
      connect \in Outcome(close) } :
      close \in Outcome(connection_state.conn # None) }

Allowed(sql) == is_forbidden(sql, get_mcp_mode(env)) = None

ConnectDb ==
  /\ Ready
  /\ \E a \in ConnectArgs :
       \E o \in ConnectOutcomes :
         Effect("connect_db", a, connect_db(connection_state, driver, env, a, o))

Query ==
  /\ Ready
  /\ \E a \in StatementArgs :
       \E o \in SessionOutcomes(Allowed(a.sql), AutoConnects, QueryFetched,
                                  FALSE) :
         Effect("query", a,
                query(connection_state, driver, env, a.sql, a.params, o))

Execute ==
  /\ Ready
  /\ \E a \in StatementArgs :
       \E o \in SessionOutcomes(Allowed(a.sql), AutoConnects, QueryFetched,
                                  TRUE) :
         Effect("execute", a,
                execute(connection_state, driver, env, a.sql, a.params, o))

ListSchemas ==
  /\ Ready
  /\ \E o \in SessionOutcomes(TRUE, AutoConnects, SchemaFetched, FALSE) :
       Effect("list_schemas", << >>,
              list_schemas(connection_state, driver, env, o))

ListTables ==
  /\ Ready
  /\ \E schema \in SchemaNames :
       \E o \in SessionOutcomes(TRUE, AutoConnects, TableFetched, FALSE) :
         Effect("list_tables", [schema |-> schema],
                list_tables(connection_state, driver, env, schema, o))

DescribeTable ==
  /\ Ready
  /\ \E table \in TableNames, schema \in SchemaNames :
       \E o \in SessionOutcomes(TRUE, AutoConnects, ColumnFetched, FALSE) :
         Effect("describe_table", [table |-> table, schema |-> schema],
                describe_table(connection_state, driver, env, table, schema, o))

Disconnect ==
  /\ Ready
  /\ \E o \in [close : Outcome(connection_state.conn # None)] :
       Effect("disconnect", << >>, disconnect(connection_state, driver, o))

\* The transport has serialized the result (or reported the exception).
Respond ==
  /\ last # NoCall
  /\ last' = NoCall
  /\ UNCHANGED << env, connection_state, driver, callers >>

Next ==
  \/ ConnectDb
  \/ Query
  \/ Execute
  \/ ListSchemas
  \/ ListTables
  \/ DescribeTable
  \/ Disconnect
  \/ Respond

Spec == Init /\ [][Next]_vars

(***************************************************************************)
(* Vocabulary of the properties                                            *)
(***************************************************************************)
\* An operation has just ended / ends in this step.
Ended == last # NoCall

Ends(op) == Ready /\ last'.op = op

Returned == Ended /\ ~last.out.raised

\* The operations that need a session.
SessionOps ==
  {"query", "execute", "list_schemas", "list_tables", "describe_table"}

\* The deny-list of a mode, as the specification gives it.
DenyList(mode) ==
  IF mode = MODE_READONLY THEN FORBIDDEN_READONLY
  ELSE IF mode = MODE_READWRITE THEN FORBIDDEN_READWRITE
  ELSE << >>

\* The leading whitespace-delimited token of a statement, lower-cased; the
\* empty token for an empty statement.
LeadingKeyword(sql) ==
  LET t == Strip(sql)
  IN  IF t = << >> THEN << >> ELSE Lower(FirstToken(t))

\* The statement is denied in the mode of the environment.
Denied(sql) == InList(LeadingKeyword(sql), DenyList(get_mcp_mode(env)))

\* The Forbidden result for a statement.
Forbidden(sql) ==
  [status |-> "error",
   error |-> ForbiddenReason(LeadingKeyword(sql), get_mcp_mode(env))]

\* The environment sets all four required connection parameters.
EnvComplete ==
  /\ TruthyStr(env.REDSHIFT_HOST) /\ TruthyStr(env.REDSHIFT_DATABASE)
  /\ TruthyStr(env.REDSHIFT_USER) /\ TruthyStr(env.REDSHIFT_PASSWORD)

\* The calls named name in a call log.
CallsOf(calls, name) == {i \in DOMAIN calls : calls[i].call = name}

\* The last driver call of the operation raised.
LastCallRaised == last.calls # << >> /\ ~last.calls[Len(last.calls)].ok

(***************************************************************************)
(* C1: a statement whose leading keyword is in the deny-list of the        *)
(* current mode makes query and execute return the Forbidden error with    *)
(* the gate's reason, with no driver call at all (no auto-connect either)  *)
(* and the Session left as it was.                                         *)
(***************************************************************************)
C1_ForbiddenWithoutDriver ==
  [][ ((Ends("query") \/ Ends("execute")) /\ Denied(last'.args.sql))
      => /\ last'.out = [raised |-> FALSE,
                         result |-> Forbidden(last'.args.sql)]
         /\ last'.calls = << >>
         /\ UNCHANGED << connection_state, driver >> ]_vars

\* A denied execute has ended while the Session is disconnected and the
\* environment would let auto_connect connect.
C1_Witness ==
  /\ Ended /\ last.op = "execute" /\ Denied(last.args.sql)
  /\ connection_state.conn = None /\ EnvComplete /\ env.REDSHIFT_PORT = None

(***************************************************************************)
(* C2: the cursor is non-null if and only if the connection is non-null.   *)
(***************************************************************************)
C2_CursorIffConn ==
  (connection_state.cursor # None) <=> (connection_state.conn # None)

(***************************************************************************)
(* C3: a connect_db that fails with a driver error (in close, connect or   *)
(* cursor) returns the error with the driver's message and leaves the      *)
(* Session cleared: all five fields null.                                  *)
(***************************************************************************)
C3_FailedConnectClears ==
  (Ended /\ last.op = "connect_db" /\ LastCallRaised)
  => /\ last.out = [raised |-> FALSE,
                    result |-> ErrorResult(
                      DriverError(last.calls[Len(last.calls)].call))]
     /\ connection_state = ConnectionState

(***************************************************************************)
(* C4: an execute that reaches the driver resolves its transaction one     *)
(* way: execute and commit both return, then one commit, no rollback and   *)
(* a Success result with rows_affected; or one of them raises, then one    *)
(* rollback after it and an Error result with the driver's message.        *)
(***************************************************************************)
C4_ExecuteResolves ==
  (Ended /\ last.op = "execute" /\ CallsOf(last.calls, "execute") # {})
  => LET calls == last.calls
         n == Len(calls)
         commits == CallsOf(calls, "commit")
         rollbacks == CallsOf(calls, "rollback")
         x == CHOOSE i \in CallsOf(calls, "execute") : TRUE
     IN  IF calls[x].ok /\ \E i \in commits : calls[i].ok
         THEN /\ Cardinality(commits) = 1 /\ rollbacks = {}
              /\ ~last.out.raised
              /\ last.out.result.status = "success"
              /\ "rows_affected" \in DOMAIN last.out.result
         ELSE /\ rollbacks = {n}
              /\ ~calls[n - 1].ok
              /\ last.out = [raised |-> FALSE,
                             result |-> ErrorResult(
                               DriverError(calls[n - 1].call))]

(***************************************************************************)
(* C5: no operation ends with an uncaught exception.                       *)
(***************************************************************************)
C5_NoUncaughtException == Ended => ~last.out.raised

(***************************************************************************)
(* C6: every result an operation returns has a status, one of success,     *)
(* connected, disconnected, error.                                         *)
(***************************************************************************)
C6_ResultHasStatus ==
  Returned
  => /\ "status" \in DOMAIN last.out.result
     /\ last.out.result.status
          \in {"success", "connected", "disconnected", "error"}

(***************************************************************************)
(* C7: from a disconnected Session, with host, database, user and password *)
(* all in the environment and a driver whose calls all return, a permitted *)
(* operation that needs a session succeeds without connect_db having been  *)
(* called, opening exactly one connection; and an operation that starts    *)
(* with a connection opens none.                                           *)
(***************************************************************************)
\* The operation that ends in this step needs a session and the gate
\* permits it.
EndsPermitted ==
  /\ Ready /\ last'.op \in SessionOps
  /\ last'.op \in {"query", "execute"} => ~Denied(last'.args.sql)

\* Every driver call of the operation that ends in this step returned.
DriverAccepts == \A i \in DOMAIN last'.calls : last'.calls[i].ok

C7_AutoConnectOnce ==
  [][ /\ (EndsPermitted /\ connection_state.conn = None /\ EnvComplete
          /\ DriverAccepts)
         => /\ ~last'.out.raised
            /\ "status" \in DOMAIN last'.out.result
            /\ last'.out.result.status = "success"
            /\ Cardinality(CallsOf(last'.calls, "connect")) = 1
            /\ driver'.opened = driver.opened + 1
            /\ connection_state'.conn = Some(driver'.opened)
      /\ (EndsPermitted /\ connection_state.conn # None)
         => /\ CallsOf(last'.calls, "connect") = {}
            /\ driver'.opened = driver.opened ]_vars

(***************************************************************************)
(* C8: when some of host, database, user, password resolve neither from    *)
(* the argument nor from the environment, connect_db returns the           *)
(* MissingParameters error that names exactly those, makes no driver call  *)
(* and leaves the Session as it was.                                       *)
(***************************************************************************)
\* The parameter is given neither as an argument nor in the environment.
Unresolved(arg, envvar) == ~TruthyStr(arg) /\ ~TruthyStr(envvar)

\* The message entries of the unresolved parameters of connect_db(a).
UnresolvedNames(a) ==
  (IF Unresolved(a.host, env.REDSHIFT_HOST)
   THEN << "host (or REDSHIFT_HOST env var)" >> ELSE << >>)
  \o (IF Unresolved(a.database, env.REDSHIFT_DATABASE)
      THEN << "database (or REDSHIFT_DATABASE env var)" >> ELSE << >>)
  \o (IF Unresolved(a.user, env.REDSHIFT_USER)
      THEN << "user (or REDSHIFT_USER env var)" >> ELSE << >>)
  \o (IF Unresolved(a.password, env.REDSHIFT_PASSWORD)
      THEN << "password (or REDSHIFT_PASSWORD env var)" >> ELSE << >>)

C8_MissingParameters ==
  [][ (Ends("connect_db") /\ UnresolvedNames(last'.args) # << >>)
      => /\ last'.out =
              [raised |-> FALSE,
               result |-> [status |-> "error",
                           error |-> [text |-> "Missing required parameters: ",
                                      missing |-> UnresolvedNames(last'.args)]]]
         /\ last'.calls = << >>
         /\ UNCHANGED << connection_state, driver >> ]_vars

(***************************************************************************)
(* C9: disconnect in the Disconnected state makes no driver call, leaves   *)
(* the Session as it was and returns Disconnected; and a disconnect that   *)
(* returns Disconnected leaves the Session Disconnected, so that a second  *)
(* disconnect returns Disconnected again and changes nothing.              *)
(***************************************************************************)
Disconnected == [status |-> "disconnected"]

C9_DisconnectIdempotent ==
  [][ Ends("disconnect")
      => /\ connection_state.conn = None
            => /\ last'.calls = << >>
               /\ last'.out = [raised |-> FALSE, result |-> Disconnected]
               /\ UNCHANGED << connection_state, driver >>
         /\ last'.out = [raised |-> FALSE, result |-> Disconnected]
            => connection_state' = ConnectionState ]_vars

\* A disconnect has ended that found the Session disconnected, after a
\* connection had been opened and closed.
C9_Witness ==
  /\ Ended /\ last.op = "disconnect" /\ last.calls = << >>
  /\ last.out.result = Disconnected
  /\ driver.opened > 0 /\ driver.live = {}
  /\ connection_state = ConnectionState

(***************************************************************************)
(* C10: disconnect in the Connected state closes the connection; if close  *)
(* raises, the result is the error with the driver's message and the five  *)
(* Session fields keep their values; if close returns, all five are null.  *)
(***************************************************************************)
C10_DisconnectCloseFailure ==
  [][ (Ends("disconnect") /\ connection_state.conn # None)
      => /\ Len(last'.calls) = 1
         /\ last'.calls[1].call = "close"
         /\ last'.calls[1].on = connection_state.conn
         /\ ~last'.calls[1].ok
            => /\ last'.out = [raised |-> FALSE,
                               result |-> ErrorResult(DriverError("close"))]
               /\ connection_state' = connection_state
         /\ last'.calls[1].ok
            => connection_state' = ConnectionState ]_vars

\* A disconnect has ended whose close raised, the Session still connected.
C10_Witness ==
  /\ Ended /\ last.op = "disconnect"
  /\ last.calls # << >> /\ ~last.calls[1].ok
  /\ connection_state.conn # None /\ connection_state.host # None

(***************************************************************************)
(* C11: under admin mode the gate allows every statement, whatever its     *)
(* leading keyword (every keyword of both deny-lists, and the empty        *)
(* statement): a query or execute that ends in admin mode has not returned *)
(* Forbidden.                                                              *)
(***************************************************************************)
\* The mode a permission check reads.
Mode == get_mcp_mode(env)

\* The outcome is a Forbidden result: an error whose reason is the gate's.
IsForbidden(out) ==
  /\ ~out.raised
  /\ "error" \in DOMAIN out.result
  /\ "token" \in DOMAIN out.result.error

GatedOps == {"query", "execute"}

C11_AdminAllowsAll ==
  (Ended /\ last.op \in GatedOps /\ Mode = MODE_ADMIN)
  => /\ is_forbidden(last.args.sql, Mode) = None
     /\ ~IsForbidden(last.out)

\* In admin mode an execute of a DROP has ended that ran on the driver and
\* was committed.
C11_Witness ==
  /\ Ended /\ last.op = "execute" /\ Mode = MODE_ADMIN
  /\ LeadingKeyword(last.args.sql) = KW_drop
  /\ CallsOf(last.calls, "commit") # {}
  /\ Returned /\ last.out.result.status = "success"

(***************************************************************************)
(* C12: under readwrite mode the gate allows a statement whose leading     *)
(* keyword is insert or update, and denies exactly the statements whose    *)
(* leading keyword (lower-cased, after the surrounding whitespace is       *)
(* trimmed) is delete, drop, truncate, alter, grant, revoke, comment, set,  *)
(* copy, unload, vacuum, analyze or merge, with the reason "'<TOKEN>'       *)
(* statements are not allowed in readwrite mode.", TOKEN the keyword in    *)
(* upper case.                                                             *)
(***************************************************************************)
ReadwriteDenied ==
  {KW_delete, KW_drop, KW_truncate, KW_alter, KW_grant, KW_revoke,
   KW_comment, KW_set, KW_copy, KW_unload, KW_vacuum, KW_analyze, KW_merge}

ReadwriteForbidden(keyword) ==
  [status |-> "error",
   error |-> [text |-> "'{token}' statements are not allowed in {mode} mode.",
              token |-> Upper(keyword),
              mode |-> MODE_READWRITE]]

C12_ReadwriteDenyList ==
  (Ended /\ last.op \in GatedOps /\ Mode = MODE_READWRITE)
  => LET keyword == LeadingKeyword(last.args.sql)
     IN  /\ keyword \in ReadwriteDenied
            => /\ last.out = [raised |-> FALSE,
                              result |-> ReadwriteForbidden(keyword)]
               /\ last.calls = << >>
         /\ keyword \notin ReadwriteDenied => ~IsForbidden(last.out)
         /\ keyword \in {KW_insert, KW_update}
            => is_forbidden(last.args.sql, Mode) = None

\* In readwrite mode an execute of an INSERT, written in mixed case within
\* whitespace, has ended that ran on the driver and was committed.
C12_Witness ==
  /\ Ended /\ last.op = "execute" /\ Mode = MODE_READWRITE
  /\ LeadingKeyword(last.args.sql) = KW_insert
  /\ last.args.sql # Upper(last.args.sql)
  /\ CallsOf(last.calls, "commit") # {}
  /\ Returned /\ last.out.result.status = "success"

(***************************************************************************)
(* C13: the mode of a permission check is always one of readonly,          *)
(* readwrite, admin; a configured value that is not one of these three,    *)
(* and an absent value, is treated as readonly, so that under it the gate  *)
(* denies what readonly denies.                                            *)
(***************************************************************************)
Modes == {MODE_READONLY, MODE_READWRITE, MODE_ADMIN}

\* The Forbidden result of readonly mode for a statement.
ReadonlyForbidden(sql) ==
  [status |-> "error",
   error |-> [text |-> "'{token}' statements are not allowed in {mode} mode.",
              token |-> Upper(LeadingKeyword(sql)),
              mode |-> MODE_READONLY]]

\* A query or execute that has ended was gated as readonly gates.
GatedAsReadonly ==
  (Ended /\ last.op \in GatedOps)
  => IF InList(LeadingKeyword(last.args.sql), FORBIDDEN_READONLY)
     THEN /\ last.out = [raised |-> FALSE,
                         result |-> ReadonlyForbidden(last.args.sql)]
          /\ last.calls = << >>
     ELSE ~IsForbidden(last.out)

\* The claim as stated: the configured value itself is compared with the
\* three modes.
C13_UnrecognizedIsReadonly ==
  /\ Mode \in Modes
  /\ get_mcp_mode([env EXCEPT !.DB_MCP_MODE = None]) = MODE_READONLY
  /\ env.DB_MCP_MODE[1] \notin Modes
     => Mode = MODE_READONLY /\ GatedAsReadonly

\* The claim as amended: the configured value is compared in lower case.
C13_UnrecognizedLowerIsReadonly ==
  /\ Mode \in Modes
  /\ get_mcp_mode([env EXCEPT !.DB_MCP_MODE = None]) = MODE_READONLY
  /\ Lower(env.DB_MCP_MODE[1]) \notin Modes
     => Mode = MODE_READONLY /\ GatedAsReadonly
  /\ Lower(env.DB_MCP_MODE[1]) \in Modes
     => Mode = Lower(env.DB_MCP_MODE[1])

\* With a configured mode that is none of the three in any case, an
\* execute of an INSERT has ended.
C13_Witness ==
  /\ Lower(env.DB_MCP_MODE[1]) \notin Modes
  /\ Ended /\ last.op = "execute"
  /\ LeadingKeyword(last.args.sql) = KW_insert

(***************************************************************************)
(* C14: for each of host, database, user, password and port, the value     *)
(* connect_db passes to the driver's connect is the argument of the call   *)
(* whenever one is supplied, otherwise the configured value, and the port  *)
(* is 5439 when there is neither; no argument is overridden by the         *)
(* configuration.                                                          *)
(***************************************************************************)
\* The configured value of a text parameter: an unset and an empty variable
\* configure nothing.
Configured(envvar) == IF TruthyStr(envvar) THEN envvar ELSE None

\* The configured port, where REDSHIFT_PORT is a numeral.
ConfiguredPort ==
  IF TruthyText(env.REDSHIFT_PORT) THEN ParseInt(env.REDSHIFT_PORT[1])
  ELSE None

ConfiguredPortOrDefault ==
  IF ConfiguredPort # None THEN ConfiguredPort ELSE Some(5439)

\* The connect calls of the operation that has ended.
ConnectCalls == {last.calls[i] : i \in CallsOf(last.calls, "connect")}

\* The claim as stated: an argument is supplied when it is not None.
SuppliedOr(arg, configured) == IF arg # None THEN arg ELSE configured

C14_ArgumentPrecedence ==
  (Ended /\ last.op = "connect_db")
  => \A c \in ConnectCalls :
       /\ c.host = SuppliedOr(last.args.host, Configured(env.REDSHIFT_HOST))
       /\ c.database = SuppliedOr(last.args.database,
                                  Configured(env.REDSHIFT_DATABASE))
       /\ c.user = SuppliedOr(last.args.user, Configured(env.REDSHIFT_USER))
       /\ c.password = SuppliedOr(last.args.password,
                                  Configured(env.REDSHIFT_PASSWORD))
       /\ c.port = SuppliedOr(last.args.port, ConfiguredPortOrDefault)

\* The claim as amended: an empty text and a port 0 count as not supplied.
NonEmptyOr(arg, configured) == IF TruthyStr(arg) THEN arg ELSE configured

NonZeroOr(arg, configured) == IF TruthyInt(arg) THEN arg ELSE configured

C14_NonEmptyArgumentPrecedence ==
  (Ended /\ last.op = "connect_db")
  => \A c \in ConnectCalls :
       /\ c.host = NonEmptyOr(last.args.host, Configured(env.REDSHIFT_HOST))
       /\ c.database = NonEmptyOr(last.args.database,
                                  Configured(env.REDSHIFT_DATABASE))
       /\ c.user = NonEmptyOr(last.args.user, Configured(env.REDSHIFT_USER))
       /\ c.password = NonEmptyOr(last.args.password,
                                  Configured(env.REDSHIFT_PASSWORD))
       /\ c.port = NonZeroOr(last.args.port, ConfiguredPortOrDefault)

\* A connect_db has ended that called connect with a host from its
\* argument although one is configured, a database from the configuration
\* and the default port.
C14_Witness ==
  /\ Ended /\ last.op = "connect_db"
  /\ last.args.host = Some("arg-host") /\ env.REDSHIFT_HOST = Some("env-host")
  /\ last.args.database = None /\ last.args.port = None
  /\ env.REDSHIFT_PORT = None
  /\ \E c \in ConnectCalls :
       c.host = Some("arg-host") /\ c.database = Some("env-db")
       /\ c.port = Some(5439)

(***************************************************************************)
(* C15: query calls neither commit nor rollback on the connection, whether *)
(* it succeeds or the driver raises in execute or in fetchall; of all the  *)
(* operations only execute makes these calls.                              *)
(***************************************************************************)
\* The commit and rollback calls of the operation that has ended.
TransactionControl ==
  CallsOf(last.calls, "commit") \cup CallsOf(last.calls, "rollback")

C15_QueryNoTransactionControl ==
  /\ (Ended /\ last.op = "query") => TransactionControl = {}
  /\ (Ended /\ TransactionControl # {}) => last.op = "execute"

\* A query has ended whose execute returned and whose fetchall raised.
C15_Witness ==
  /\ Ended /\ last.op = "query"
  /\ Len(last.calls) >= 2
  /\ last.calls[Len(last.calls) - 1].call = "execute"
  /\ last.calls[Len(last.calls) - 1].ok
  /\ last.calls[Len(last.calls)].call = "fetchall"
  /\ ~last.calls[Len(last.calls)].ok
  /\ last.out = [raised |-> FALSE,
                 result |-> ErrorResult(DriverError("fetchall"))]

(***************************************************************************)
(* The round trip of tests/test_server.py: connect_db, execute of a CREATE *)
(* TABLE, execute of an INSERT, query of a SELECT, disconnect, and a       *)
(* query after it, each called once and in this order whatever the one     *)
(* before returned.  The database behind the driver holds one table, t:    *)
(* driver.table is None until a CREATE TABLE is committed, then the rows   *)
(* that committed INSERTs added.  last.trip counts the calls made and      *)
(* last.accepted tells whether every driver call so far returned.          *)
(***************************************************************************)
CREATE_TABLE ==
  << "C", "R", "E", "A", "T", "E", " ", "T", "A", "B", "L", "E", " ", "t",
     "(", "i", "d", " ", "I", "N", "T", ")" >>

INSERT_ROW ==
  << "I", "N", "S", "E", "R", "T", " ", "I", "N", "T", "O", " ", "t", " ",
     "V", "A", "L", "U", "E", "S", " ", "(", "1", ")" >>

SELECT_ALL ==
  << "S", "E", "L", "E", "C", "T", " ", "*", " ", "F", "R", "O", "M", " ",
     "t" >>

\* connect_db with valid parameters, the port given or not.
TripConnectArgs ==
  [host : {Some("arg-host")}, database : {Some("arg-db")},
   user : {Some("arg-user")}, password : {Some("arg-pw")},
   port : {None, Some(5439)}]

\* The operation committed what it executed.
Committed(r) ==
  \E i \in DOMAIN r.calls : r.calls[i].call = "commit" /\ r.calls[i].ok

\* The table after an operation r that executed a CREATE TABLE t(id INT).
Created(table, r) ==
  IF Committed(r) /\ table = None THEN Some(<< >>) ELSE table

\* The table after an operation r that executed an INSERT of the row (1).
Inserted(table, r) ==
  IF Committed(r) /\ table # None THEN Some(Append(table[1], << 1 >>))
  ELSE table

\* What the cursor holds after SELECT * FROM t.
Selected(table) ==
  [description |-> Some(<< << "id", "int4" >> >>),
   rows |-> IF table # None THEN table[1] ELSE << >>]

TripStart == [op |-> "none", trip |-> 0, accepted |-> TRUE]

TripInit ==
  /\ \E e \in Environments : env = ImportEnv(e)
  /\ connection_state = ConnectionState
  /\ driver = [opened |-> 0, live |-> {}, table |-> None]
  /\ last = TripStart
  /\ callers = NoCallers

\* Call n of the trip, the operation op with arguments args, ran as r and
\* left the table as given.
TripEffect(n, op, args, r, table) ==
  /\ connection_state' = r.state
  /\ driver' = [r.driver EXCEPT !.table = table]
  /\ last' = [op |-> op, args |-> args, calls |-> r.calls, out |-> r.out,
              trip |-> n,
              accepted |-> last.accepted
                           /\ \A i \in DOMAIN r.calls : r.calls[i].ok]
  /\ UNCHANGED << env, callers >>

TripConnect ==
  /\ last.trip = 0
  /\ \E a \in TripConnectArgs :
       \E o \in ConnectOutcomes :
         TripEffect(1, "connect_db", a,
                    connect_db(connection_state, driver, env, a, o),
                    driver.table)

TripCreate ==
  /\ last.trip = 1
  /\ \E o \in SessionOutcomes(Allowed(CREATE_TABLE), AutoConnects,
                                QueryFetched, TRUE) :
       TripEffect(2, "execute", [sql |-> CREATE_TABLE, params |-> None],
                  execute(connection_state, driver, env, CREATE_TABLE, None, o),
                  Created(driver.table,
                          execute(connection_state, driver, env, CREATE_TABLE,
                                  None, o)))

\* An INSERT into a table that does not exist raises in the driver.
TripInsert ==
  /\ last.trip = 2
  /\ \E o \in SessionOutcomes(Allowed(INSERT_ROW), AutoConnects,
                                QueryFetched, TRUE) :
       /\ o.execute => driver.table # None
       /\ TripEffect(3, "execute", [sql |-> INSERT_ROW, params |-> None],
                     execute(connection_state, driver, env, INSERT_ROW, None, o),
                     Inserted(driver.table,
                              execute(connection_state, driver, env,
                                      INSERT_ROW, None, o)))

\* A SELECT from a table that does not exist raises in the driver.
TripSelect ==
  /\ last.trip = 3
  /\ \E o \in SessionOutcomes(Allowed(SELECT_ALL), AutoConnects,
                                {Selected(driver.table)}, FALSE) :
       /\ o.execute => driver.table # None
       /\ TripEffect(4, "query", [sql |-> SELECT_ALL, params |-> None],
                     query(connection_state, driver, env, SELECT_ALL, None, o),
                     driver.table)

TripDisconnect ==
  /\ last.trip = 4
  /\ \E o \in [close : Outcome(connection_state.conn # None)] :
       TripEffect(5, "disconnect", << >>,
                  disconnect(connection_state, driver, o), driver.table)

TripQueryAgain ==
  /\ last.trip = 5
  /\ \E o \in SessionOutcomes(Allowed(SELECT_ALL), AutoConnects,
                                {Selected(driver.table)}, FALSE) :
       /\ o.execute => driver.table # None
       /\ TripEffect(6, "query", [sql |-> SELECT_ALL, params |-> None],
                     query(connection_state, driver, env, SELECT_ALL, None, o),
                     driver.table)

TripNext ==
  \/ TripConnect
  \/ TripCreate
  \/ TripInsert
  \/ TripSelect
  \/ TripDisconnect
  \/ TripQueryAgain

RoundTrip == TripInit /\ [][TripNext]_vars

(***************************************************************************)
(* C16: in the round trip connect_db with valid parameters, execute of a   *)
(* CREATE TABLE, execute of an INSERT of one row, query of a SELECT of all *)
(* columns, disconnect, query,                                             *)
(* with a driver whose calls all return and a mode that permits CREATE and *)
(* INSERT: connect_db connects; both executes succeed and commit; the      *)
(* query returns row_count 1, the column list of the table and the one     *)
(* inserted row; disconnect returns Disconnected and leaves the Session    *)
(* disconnected; and the query after it attempts an auto-connect: it       *)
(* connects when the environment is complete and returns NotConnected      *)
(* when it is not.                                                         *)
(***************************************************************************)
\* The result that has a status has this one.
HasStatus(status) ==
  /\ ~last.out.raised
  /\ "status" \in DOMAIN last.out.result
  /\ last.out.result.status = status

C16_RoundTrip ==
  (last.trip > 0 /\ last.accepted /\ Mode \in {MODE_READWRITE, MODE_ADMIN})
  => /\ ~last.out.raised
     /\ last.trip = 1 => HasStatus("connected")
     /\ last.trip \in {2, 3}
        => /\ HasStatus("success")
           /\ "rows_affected" \in DOMAIN last.out.result
           /\ Cardinality(CallsOf(last.calls, "commit")) = 1
     /\ last.trip = 4
        => last.out.result = [status |-> "success", row_count |-> 1,
                              columns |-> << "id" >>,
                              data |-> << [id |-> 1] >>]
     /\ last.trip = 5
        => /\ last.out.result = Disconnected
           /\ connection_state = ConnectionState
     /\ last.trip = 6
        => IF EnvComplete
           THEN /\ Cardinality(CallsOf(last.calls, "connect")) = 1
                /\ HasStatus("success")
           ELSE /\ last.calls = << >>
                /\ last.out.result = NotConnected

(***************************************************************************)
(* C17: auto_connect calls the driver's connect if and only if host,       *)
(* database, user and password are all configured.  A permitted operation  *)
(* that finds the Session disconnected calls connect, once and first, when *)
(* the four are configured; when one of them is not, it makes no driver    *)
(* call, leaves the Session as it was and returns NotConnected.            *)
(***************************************************************************)
AutoConnectIff ==
  (EndsPermitted /\ connection_state.conn = None)
  => IF EnvComplete
     THEN /\ Cardinality(CallsOf(last'.calls, "connect")) = 1
          /\ last'.calls[1].call = "connect"
     ELSE /\ last'.calls = << >>
          /\ UNCHANGED << connection_state, driver >>
          /\ last'.out = [raised |-> FALSE, result |-> NotConnected]

C17_AutoConnectIffConfigured == [][AutoConnectIff]_vars

(***************************************************************************)
(* C18: in every sequential run at most one driver connection is open, and *)
(* an open connection is the one the Session references: no connect_db,    *)
(* failed connect_db, auto-connect or disconnect leaks a connection.  An   *)
(* operation that opens a connection while the Session holds one has       *)
(* closed that one just before.                                            *)
(***************************************************************************)
OneOpenReferenced ==
  /\ Cardinality(driver.live) <= 1
  /\ \A h \in driver.live : connection_state.conn = Some(h)

ClosesBeforeOpens ==
  (Ready /\ last' # NoCall /\ connection_state.conn # None)
  => \A i \in CallsOf(last'.calls, "connect") :
       /\ i > 1
       /\ last'.calls[i - 1] = Call("close", connection_state.conn, TRUE)

C18_NoConnectionLeak ==
  [][OneOpenReferenced' /\ ClosesBeforeOpens]_vars

\* A connect_db has ended that closed the first connection and opened the
\* second, which the Session holds.
C18_Witness ==
  /\ Ended /\ last.op = "connect_db"
  /\ Len(last.calls) = 3
  /\ last.calls[1] = Call("close", Some(1), TRUE)
  /\ last.calls[2].call = "connect" /\ last.calls[2].ok
  /\ driver.live = {2} /\ connection_state.conn = Some(2)

(***************************************************************************)
(* C19: list_schemas, list_tables and describe_table behave as query does  *)
(* with their catalog statement and parameters on the same Session, in the *)
(* same mode and against the same driver: the same auto-connect when       *)
(* disconnected and NotConnected if still disconnected, the same driver    *)
(* calls in the same order (execute, then fetchall, no commit and no       *)
(* rollback), the same Session and connections left, the same Error result *)
(* when the driver raises, and success exactly when query succeeds; in no  *)
(* mode does the gate keep the catalog statement from the driver.          *)
(***************************************************************************)
IsSuccess(out) ==
  /\ ~out.raised
  /\ "status" \in DOMAIN out.result
  /\ out.result.status = "success"

\* Two outcomes are the same up to the fields of a success result.
SameOutcome(a, b) ==
  IF IsSuccess(a) \/ IsSuccess(b) THEN IsSuccess(a) /\ IsSuccess(b)
  ELSE a = b

\* Two runs of operations did the same.
SamePath(a, b) ==
  /\ a.state = b.state
  /\ a.driver = b.driver
  /\ a.calls = b.calls
  /\ SameOutcome(a.out, b.out)
  /\ \A i \in DOMAIN a.calls : a.calls[i].call \notin {"commit", "rollback"}

\* The run r is what the step made of the state.
IsStep(r) ==
  /\ connection_state' = r.state
  /\ driver' = r.driver
  /\ last'.calls = r.calls
  /\ SameOutcome(last'.out, r.out)

\* Whatever the driver does, list_schemas does what query does; and the
\* step is one that query could have made.
ListSchemasAsQuery ==
  /\ is_forbidden(LIST_SCHEMAS_SQL, Mode) = None
  /\ \A o \in SessionOutcomes(TRUE, AutoConnects, SchemaFetched, FALSE) :
       SamePath(list_schemas(connection_state, driver, env, o),
                query(connection_state, driver, env, LIST_SCHEMAS_SQL, None, o))
  /\ \E o \in SessionOutcomes(TRUE, AutoConnects, SchemaFetched, FALSE) :
       IsStep(query(connection_state, driver, env, LIST_SCHEMAS_SQL, None, o))

ListTablesAsQuery ==
  /\ is_forbidden(LIST_TABLES_SQL, Mode) = None
  /\ \A o \in SessionOutcomes(TRUE, AutoConnects, TableFetched, FALSE) :
       \A schema \in SchemaNames :
         SamePath(list_tables(connection_state, driver, env, schema, o),
                  query(connection_state, driver, env, LIST_TABLES_SQL,
                        Some(<< schema >>), o))
  /\ \E o \in SessionOutcomes(TRUE, AutoConnects, TableFetched, FALSE) :
       IsStep(query(connection_state, driver, env, LIST_TABLES_SQL,
                    Some(<< last'.args.schema >>), o))

DescribeTableAsQuery ==
  /\ is_forbidden(DESCRIBE_TABLE_SQL, Mode) = None
  /\ \A o \in SessionOutcomes(TRUE, AutoConnects, ColumnFetched, FALSE) :
       \A schema \in SchemaNames, table \in TableNames :
         SamePath(describe_table(connection_state, driver, env, table,
                                 schema, o),
                  query(connection_state, driver, env, DESCRIBE_TABLE_SQL,
                        Some(<< schema, table >>), o))
  /\ \E o \in SessionOutcomes(TRUE, AutoConnects, ColumnFetched, FALSE) :
       IsStep(query(connection_state, driver, env, DESCRIBE_TABLE_SQL,
                    Some(<< last'.args.schema, last'.args.table >>), o))

IntrospectionAsQuery ==
  /\ Ends("list_schemas") => ListSchemasAsQuery
  /\ Ends("list_tables") => ListTablesAsQuery
  /\ Ends("describe_table") => DescribeTableAsQuery

C19_IntrospectionAsQuery == [][IntrospectionAsQuery]_vars

\* In readonly mode a list_tables has ended that found the Session
\* disconnected, connected from the environment, executed its statement
\* and had fetchall raise.
C19_Witness ==
  /\ Ended /\ last.op = "list_tables" /\ Mode = MODE_READONLY
  /\ Len(last.calls) = 4
  /\ last.calls[1].call = "connect" /\ last.calls[1].ok
  /\ last.calls[3].call = "execute" /\ last.calls[3].ok
  /\ last.calls[4] = Call("fetchall", connection_state.cursor, FALSE)
  /\ last.out = [raised |-> FALSE,
                 result |-> ErrorResult(DriverError("fetchall"))]

(***************************************************************************)
(* Two callers.  The tools are coroutines over one global connection_state *)
(* with no lock; here two callers run them at the same time and their      *)
(* operations interleave between driver calls.  callers[c].pc is the       *)
(* source line caller c is at, callers[c].cursor the local variable cursor *)
(* of query and execute, callers[c].seen whether the connectivity check    *)
(* found an open connection with its cursor, callers[c].use what the       *)
(* cursor was when execute was called on it.  last is the operation that   *)
(* returned last.                                                          *)
(***************************************************************************)
Callers == {"A", "B"}

\* Environments of the two callers: complete or empty under readwrite, and
\* complete with an unreadable port under the default mode.
ConcurrentEnvironments ==
  {p @@ [REDSHIFT_PORT |-> None, DB_MCP_MODE |-> Some(MODE_READWRITE)] :
     p \in {EnvAll, EnvNone}}
  \cup {EnvAll @@ [REDSHIFT_PORT |-> Some(<< "a", "b", "c" >>),
                   DB_MCP_MODE |-> None]}

\* connect_db as the callers call it.
ConcurrentArgs ==
  [host |-> Some("arg-host"), database |-> Some("arg-db"),
   user |-> Some("arg-user"), password |-> Some("arg-pw"), port |-> None]

\* The calls a caller makes: the operation, its statement, its first line,
\* and whether connect_db runs as the tool or within auto_connect.
ConcurrentCalls ==
  {[op |-> "query", sql |-> SELECT_1, pc |-> "gate", ret |-> "auto"],
   [op |-> "execute", sql |-> INSERT_ROW, pc |-> "gate", ret |-> "auto"],
   [op |-> "disconnect", sql |-> << >>, pc |-> "d449", ret |-> "none"],
   [op |-> "connect_db", sql |-> << >>, pc |-> "c141", ret |-> "top"]}

Idle ==
  [pc |-> "idle", op |-> "none", sql |-> << >>, ret |-> "none",
   cursor |-> None, seen |-> FALSE, use |-> "none", err |-> None]

ConcurrentInit ==
  /\ \E e \in ConcurrentEnvironments : env = ImportEnv(e)
  /\ connection_state = ConnectionState
  /\ driver = [opened |-> 0, live |-> {}]
  /\ last = NoCall
  /\ callers = [c \in Callers |-> Idle]

Ret(result) == [raised |-> FALSE, result |-> result]

Exc(exc) == [raised |-> TRUE, exc |-> exc]

\* Caller c goes on to line pc.
Continue(c, pc) ==
  /\ callers' = [callers EXCEPT ![c].pc = pc]
  /\ UNCHANGED last

\* The operation of caller c returns or raises.
Finish(c, out, use) ==
  /\ callers' = [callers EXCEPT ![c] = Idle]
  /\ last' = [op |-> callers[c].op, out |-> out,
              seen |-> callers[c].seen, use |-> use]

\* connect_db returns: to its caller, or to auto_connect, which logs the
\* result and returns to the session check.
ConnectReturns(c, result) ==
  IF callers[c].ret = "top" THEN Finish(c, Ret(result), "none")
  ELSE Continue(c, "recheck")

\* The connection is open and the cursor is its cursor.
Healthy ==
  /\ connection_state.conn # None
  /\ connection_state.cursor = connection_state.conn
  /\ connection_state.conn[1] \in driver.live

\* A caller may begin an operation whenever it is not in one: nothing makes
\* it wait for the other caller.
CanStart_exclusive(c) == \A d \in Callers : callers[d].pc = "idle"

CanStart(c) == callers[c].pc = "idle"

BeginCall(c, call) ==
  /\ CanStart(c)
  /\ callers' = [callers EXCEPT
                   ![c] = [Idle EXCEPT !.pc = call.pc, !.op = call.op,
                                       !.sql = call.sql, !.ret = call.ret]]
  /\ UNCHANGED << env, connection_state, driver, last >>

Begin(c) == \E call \in ConcurrentCalls : BeginCall(c, call)

\* Lines 206-209 and 259-262.
Gate(c) ==
  /\ callers[c].pc = "gate"
  /\ IF is_forbidden(callers[c].sql, get_mcp_mode(env)) # None
     THEN Finish(c, Ret([status |-> "error",
                         error |-> is_forbidden(callers[c].sql,
                                                get_mcp_mode(env))[1]]),
                 "none")
     ELSE Continue(c, "check")
  /\ UNCHANGED << env, connection_state, driver >>

\* The session is there: on to the try block.
PassCheck(c) ==
  /\ callers' = [callers EXCEPT ![c].pc = "cursor217", ![c].seen = Healthy]
  /\ UNCHANGED last

\* Lines 210 and 263.
Check(c) ==
  /\ callers[c].pc = "check"
  /\ IF connection_state.conn = None THEN Continue(c, "auto96")
     ELSE PassCheck(c)
  /\ UNCHANGED << env, connection_state, driver >>

\* Lines 213 and 266.
Recheck(c) ==
  /\ callers[c].pc = "recheck"
  /\ IF connection_state.conn = None
     THEN Finish(c, Ret(NotConnected), "none")
     ELSE PassCheck(c)
  /\ UNCHANGED << env, connection_state, driver >>

AutoStep(c, env_params) ==
  IF env_params.raised THEN Finish(c, Exc(env_params.exc), "none")
  ELSE IF HasRequired(env_params.params) THEN Continue(c, "c141")
  ELSE Continue(c, "recheck")

\* Lines 96-100 of auto_connect.
Auto96(c) ==
  /\ callers[c].pc = "auto96"
  /\ AutoStep(c, get_env_connection_params(env))
  /\ UNCHANGED << env, connection_state, driver >>

\* The parameters of connect_db resolved: the tool's arguments, or in
\* auto_connect the environment's, each with the environment behind it.
Resolved(a, params) ==
  [host |-> OrStr(a.host, params.host),
   database |-> OrStr(a.database, params.database),
   user |-> OrStr(a.user, params.user),
   password |-> OrStr(a.password, params.password)]

ResolvedFor(me, params) ==
  Resolved(IF me.ret = "top" THEN ConcurrentArgs ELSE params, params)

ValidateStep(c, r) ==
  IF MissingParameters(r.host, r.database, r.user, r.password) # << >>
  THEN ConnectReturns(c, [status |-> "error",
                          error |-> [text |-> "Missing required parameters: ",
                                     missing |-> MissingParameters(
                                       r.host, r.database, r.user,
                                       r.password)]])
  ELSE Continue(c, "c165")

EnvStep(c, env_params) ==
  IF env_params.raised THEN Finish(c, Exc(env_params.exc), "none")
  ELSE ValidateStep(c, ResolvedFor(callers[c], env_params.params))

\* Lines 141-161 of connect_db.
C141(c) ==
  /\ callers[c].pc = "c141"
  /\ EnvStep(c, get_env_connection_params(env))
  /\ UNCHANGED << env, connection_state, driver >>

\* Lines 165-166: close the connection the Session holds.
C165(c) ==
  /\ callers[c].pc = "c165"
  /\ IF connection_state.conn = None
     THEN Continue(c, "c169") /\ UNCHANGED driver
     ELSE \E ok \in BOOLEAN :
            /\ driver' = DriverClose(driver, connection_state.conn[1], ok)
            /\ IF ok THEN Continue(c, "c169")
               ELSE ConnectReturns(c, ErrorResult(DriverError("close")))
  /\ UNCHANGED << env, connection_state >>

\* Line 169: connect, and the connection is assigned.
C169(c) ==
  /\ callers[c].pc = "c169"
  /\ \E ok \in BOOLEAN :
       /\ ok => driver.opened < MaxConns
       /\ driver' = DriverConnect(driver, ok)
       /\ IF ok
          THEN /\ connection_state' =
                    [connection_state EXCEPT !.conn = Some(driver.opened + 1)]
               /\ Continue(c, "c176")
          ELSE /\ UNCHANGED connection_state
               /\ ConnectReturns(c, ErrorResult(DriverError("connect")))
  /\ UNCHANGED env

CursorStep(c, r) ==
  IF connection_state.conn = None
  THEN /\ UNCHANGED connection_state
       /\ ConnectReturns(c, ErrorResult(AttributeError("cursor")))
  ELSE \E ok \in BOOLEAN :
         IF Returns(driver, connection_state.conn[1], ok)
         THEN /\ connection_state' =
                   [conn |-> connection_state.conn,
                    cursor |-> connection_state.conn,
                    host |-> r.host, database |-> r.database,
                    user |-> r.user]
              /\ ConnectReturns(c, [status |-> "connected", host |-> r.host,
                                    database |-> r.database, user |-> r.user])
         ELSE /\ UNCHANGED connection_state
              /\ ConnectReturns(c, ErrorResult(DriverError("cursor")))

\* Lines 176-186: the cursor of connection_state.conn, and the fields.
C176(c) ==
  /\ callers[c].pc = "c176"
  /\ CursorStep(c, ResolvedFor(callers[c],
                               get_env_connection_params(env).params))
  /\ UNCHANGED << env, driver >>

\* Lines 217 and 270: cursor = connection_state.cursor
Cursor217(c) ==
  /\ callers[c].pc = "cursor217"
  /\ callers' = [callers EXCEPT ![c].pc = "exec",
                                ![c].cursor = connection_state.cursor]
  /\ UNCHANGED << env, connection_state, driver, last >>

\* What the local cursor is when execute is called on it.
UseOf(cursor) ==
  IF cursor = None THEN "null"
  ELSE IF cursor[1] \in driver.live THEN "open"
  ELSE "closed"

ExecStep(c, me, use, ok) ==
  IF me.cursor # None /\ Returns(driver, me.cursor[1], ok)
  THEN /\ callers' = [callers EXCEPT
                        ![c].pc = IF me.op = "query" THEN "fetch"
                                  ELSE "commit",
                        ![c].use = use]
       /\ UNCHANGED last
  ELSE IF me.op = "query"
  THEN Finish(c, Ret(ErrorResult(IF me.cursor = None
                                 THEN AttributeError("execute")
                                 ELSE DriverError("execute"))), use)
  ELSE /\ callers' = [callers EXCEPT
                        ![c].pc = "rollback", ![c].use = use,
                        ![c].err = Some(IF me.cursor = None
                                        THEN AttributeError("execute")
                                        ELSE DriverError("execute"))]
       /\ UNCHANGED last

\* Lines 220-223 and 273-276: cursor.execute
Exec(c) ==
  /\ callers[c].pc = "exec"
  /\ \E ok \in BOOLEAN :
       ExecStep(c, callers[c], UseOf(callers[c].cursor), ok)
  /\ UNCHANGED << env, connection_state, driver >>

\* Lines 226-239: cursor.fetchall and the result.
Fetch(c) ==
  /\ callers[c].pc = "fetch"
  /\ \E ok \in BOOLEAN, fr \in QueryFetched :
       IF Returns(driver, callers[c].cursor[1], ok)
       THEN Finish(c, Ret(QueryResult(fr)), callers[c].use)
       ELSE Finish(c, Ret(ErrorResult(DriverError("fetchall"))),
                   callers[c].use)
  /\ UNCHANGED << env, connection_state, driver >>

ToRollback(c, exc) ==
  /\ callers' = [callers EXCEPT ![c].pc = "rollback", ![c].err = Some(exc)]
  /\ UNCHANGED last

\* Lines 279-284: connection_state.conn.commit() and the result.
Commit(c) ==
  /\ callers[c].pc = "commit"
  /\ IF connection_state.conn = None
     THEN ToRollback(c, AttributeError("commit"))
     ELSE \E ok \in BOOLEAN, rowcount \in RowCounts :
            IF Returns(driver, connection_state.conn[1], ok)
            THEN Finish(c, Ret([status |-> "success",
                                rows_affected |->
                                  IF rowcount # None THEN rowcount[1]
                                  ELSE -1]),
                        callers[c].use)
            ELSE ToRollback(c, DriverError("commit"))
  /\ UNCHANGED << env, connection_state, driver >>

\* Lines 285-293: the except branch of execute.
Rollback(c) ==
  /\ callers[c].pc = "rollback"
  /\ IF connection_state.conn = None
     THEN Finish(c, Ret(ErrorResult(callers[c].err[1])), callers[c].use)
     ELSE \E ok \in BOOLEAN :
            IF Returns(driver, connection_state.conn[1], ok)
            THEN Finish(c, Ret(ErrorResult(callers[c].err[1])),
                        callers[c].use)
            ELSE Finish(c, Exc(DriverError("rollback")), callers[c].use)
  /\ UNCHANGED << env, connection_state, driver >>

\* Lines 449-450 of disconnect: close the connection.
D449(c) ==
  /\ callers[c].pc = "d449"
  /\ IF connection_state.conn = None
     THEN Finish(c, Ret([status |-> "disconnected"]), "none")
          /\ UNCHANGED driver
     ELSE \E ok \in BOOLEAN :
            /\ driver' = DriverClose(driver, connection_state.conn[1], ok)
            /\ IF ok THEN Continue(c, "d451")
               ELSE Finish(c, Ret(ErrorResult(DriverError("close"))), "none")
  /\ UNCHANGED << env, connection_state >>

\* Lines 451-457: the fields are cleared.
D451(c) ==
  /\ callers[c].pc = "d451"
  /\ connection_state' = ConnectionState
  /\ Finish(c, Ret([status |-> "disconnected"]), "none")
  /\ UNCHANGED << env, driver >>

ConcurrentNext ==
  \E c \in Callers :
    \/ Begin(c)
    \/ Gate(c)
    \/ Check(c)
    \/ Auto96(c)
    \/ C141(c)
    \/ C165(c)
    \/ C169(c)
    \/ C176(c)
    \/ Recheck(c)
    \/ Cursor217(c)
    \/ Exec(c)
    \/ Fetch(c)
    \/ Commit(c)
    \/ Rollback(c)
    \/ D449(c)
    \/ D451(c)

Concurrent == ConcurrentInit /\ [][ConcurrentNext]_vars

(***************************************************************************)
(* C20: the operations on the Session are not mutually exclusive.  While   *)
(* one caller's query or execute is past its connectivity check and has    *)
(* not yet called execute on the cursor, the other caller can begin a      *)
(* disconnect or a connect_db and can take each of its steps that close    *)
(* the connection or clear the Session.  The witness is the state this     *)
(* leads to: a query or execute that found an open connection with its     *)
(* cursor at the check and then called execute on a cursor that was closed *)
(* or null.                                                                *)
(***************************************************************************)
\* Past the connectivity check, before the cursor is used.
PastCheck == {"cursor217", "exec"}

\* The steps of disconnect and connect_db that close, replace or clear.
Closing == {"d449", "d451", "c165", "c169"}

ClosingCalls == {call \in ConcurrentCalls : call.op \in {"disconnect", "connect_db"}}

====
